---- MODULE Spec2Model ----
(***************************************************************************)
(* Model of the Claude-powered computer use agent of                      *)
(* packages/enterprise/src/computer-use/cua_claude.py: the action parser  *)
(* (parse_action), the action executor (execute_action and the helper     *)
(* wrappers click/type_text/press_key/scroll) and the agent loop          *)
(* (run_cua_loop, entered through main or called directly).               *)
(*                                                                         *)
(* Text is modelled character by character: a string is a sequence of     *)
(* one-character strings, so that the regular expressions and the         *)
(* substring tests of parse_action are computed as the code computes      *)
(* them.                                                                   *)
(***************************************************************************)
EXTENDS Integers, Sequences, FiniteSets, TLC

----------------------------------------------------------------------------
(* Characters and strings *)

Digits == {"0", "1", "2", "3", "4", "5", "6", "7", "8", "9"}

\* \s of Python's re module, restricted to the characters of the model
Spaces == {" ", "\n", "\t"}

LowerLetters ==
    {"a", "b", "c", "d", "e", "f", "g", "h", "i", "j", "k", "l", "m",
     "n", "o", "p", "q", "r", "s", "t", "u", "v", "w", "x", "y", "z"}

\* str.lower() on one character (upper-case letters the model uses)
UpperToLower ==
    [A |-> "a", C |-> "c", D |-> "d", E |-> "e", I |-> "i", K |-> "k",
     L |-> "l", M |-> "m", N |-> "n", O |-> "o", P |-> "p", R |-> "r",
     S |-> "s", T |-> "t", Y |-> "y"]

LowerChar(c) == IF c \in DOMAIN UpperToLower THEN UpperToLower[c] ELSE c

\* response_text.lower()
lower(s) == [i \in 1..Len(s) |-> LowerChar(s[i])]

Min(S) == CHOOSE x \in S : \A y \in S : x <= y

\* pat occurs in s at index i
MatchAt(s, pat, i) ==
    /\ i >= 1
    /\ i + Len(pat) - 1 <= Len(s)
    /\ \A k \in 1..Len(pat) : s[i + k - 1] = pat[k]

\* Python's  pat in s
Contains(s, pat) == \E i \in 1..(Len(s) - Len(pat) + 1) : MatchAt(s, pat, i)

\* last index of the maximal run of characters of class Cls that starts at
\* i (i - 1 when s[i] is not of the class): a greedy  [Cls]*
RunEnd(s, i, Cls) ==
    LET stop == {j \in i..Len(s) : s[j] \notin Cls}
    IN  IF stop = {} THEN Len(s) ELSE Min(stop) - 1

DigitVal(c) ==
    CASE c = "0" -> 0 [] c = "1" -> 1 [] c = "2" -> 2 [] c = "3" -> 3
      [] c = "4" -> 4 [] c = "5" -> 5 [] c = "6" -> 6 [] c = "7" -> 7
      [] c = "8" -> 8 [] c = "9" -> 9

DigitChar(d) ==
    CASE d = 0 -> "0" [] d = 1 -> "1" [] d = 2 -> "2" [] d = 3 -> "3"
      [] d = 4 -> "4" [] d = 5 -> "5" [] d = 6 -> "6" [] d = 7 -> "7"
      [] d = 8 -> "8" [] d = 9 -> "9"

\* int(ds) for a non-empty string of digits
RECURSIVE StrToInt(_)
StrToInt(ds) ==
    IF Len(ds) = 0 THEN 0
    ELSE 10 * StrToInt(SubSeq(ds, 1, Len(ds) - 1)) + DigitVal(ds[Len(ds)])

\* str(n) for an int
RECURSIVE NatToStr(_)
NatToStr(n) ==
    IF n < 10 THEN <<DigitChar(n)>>
    ELSE NatToStr(n \div 10) \o <<DigitChar(n % 10)>>

IntToStr(n) == IF n < 0 THEN <<"-">> \o NatToStr(0 - n) ELSE NatToStr(n)

----------------------------------------------------------------------------
(* String literals of the source *)

S_action    == <<"a", "c", "t", "i", "o", "n">>
S_click     == <<"c", "l", "i", "c", "k">>
S_type      == <<"t", "y", "p", "e">>
S_key       == <<"k", "e", "y">>
S_scroll    == <<"s", "c", "r", "o", "l", "l">>
S_wait      == <<"w", "a", "i", "t">>
S_done      == <<"d", "o", "n", "e">>
S_unknown   == <<"u", "n", "k", "n", "o", "w", "n">>
S_x         == <<"x">>
S_y         == <<"y">>
S_button    == <<"b", "u", "t", "t", "o", "n">>
S_double    == <<"d", "o", "u", "b", "l", "e">>
S_text      == <<"t", "e", "x", "t">>
S_direction == <<"d", "i", "r", "e", "c", "t", "i", "o", "n">>
S_amount    == <<"a", "m", "o", "u", "n", "t">>
S_ms        == <<"m", "s">>
S_reason    == <<"r", "e", "a", "s", "o", "n">>
S_raw       == <<"r", "a", "w">>
S_left      == <<"l", "e", "f", "t">>
S_down      == <<"d", "o", "w", "n">>
S_press     == <<"p", "r", "e", "s", "s">>
S_task_complete ==
    <<"t", "a", "s", "k", " ", "c", "o", "m", "p", "l", "e", "t", "e">>
S_true      == <<"t", "r", "u", "e">>
S_false     == <<"f", "a", "l", "s", "e">>
S_null      == <<"n", "u", "l", "l">>
S_True      == <<"T", "r", "u", "e">>
S_False     == <<"F", "a", "l", "s", "e">>
S_None      == <<"N", "o", "n", "e">>
S_sleep     == <<"s", "l", "e", "e", "p">>
S_screenshot == <<"s", "c", "r", "e", "e", "n", "s", "h", "o", "t">>
Q           == <<"\"">>

----------------------------------------------------------------------------
(* Python values: every value carries its type, t, and its payload, v *)

PyStr(s)  == [t |-> "str",  v |-> s]
PyInt(n)  == [t |-> "int",  v |-> n]
PyBool(b) == [t |-> "bool", v |-> b]
PyNone    == [t |-> "None", v |-> 0]

\* d.get(k, dflt) and  k in d  for a dict d (a function on its keys)
Get(d, k, dflt) == IF k \in DOMAIN d THEN d[k] ELSE dflt
\* d[k] = val: the dict d with key k set to val
Put(d, k, val) == (k :> val) @@ d
\* {}
EmptyDict == <<>>

\* str(v)
PyToStr(val) ==
    CASE val.t = "str"  -> val.v
      [] val.t = "int"  -> IntToStr(val.v)
      [] val.t = "bool" -> IF val.v THEN S_True ELSE S_False
      [] val.t = "None" -> S_None

\* bool(v): the truth value  if v:  tests
Truthy(val) ==
    CASE val.t = "str"  -> Len(val.v) > 0
      [] val.t = "int"  -> val.v # 0
      [] val.t = "bool" -> val.v
      [] val.t = "None" -> FALSE

\* a value is a number for unary minus and for division (bool is an int)
IsNumber(val) == val.t \in {"int", "bool"}
NumVal(val) == IF val.t = "bool" THEN (IF val.v THEN 1 ELSE 0) ELSE val.v

----------------------------------------------------------------------------
(* json.loads on the text the JSON regular expression matched: one object  *)
(* without nested braces.  Values are strings without escapes, integers    *)
(* and the literals true, false and null; the texts of the model hold no   *)
(* fraction, exponent, array or escape.                                    *)

\* s[i], or the empty string past the end of s
At(s, i) == IF i >= 1 /\ i <= Len(s) THEN s[i] ELSE ""

\* first index >= i of a character of class Cls, 0 when there is none
NextIndexOf(s, i, Cls) ==
    LET hit == {j \in i..Len(s) : s[j] \in Cls}
    IN  IF hit = {} THEN 0 ELSE Min(hit)

SkipWs(s, i) == RunEnd(s, i, Spaces) + 1

ScanFail == [ok |-> FALSE, next |-> 0, val |-> PyNone]

\* a string that opens at s[i] = '"'; a raw control character inside it is
\* a decode error
ScanString(s, i) ==
    LET j == NextIndexOf(s, i + 1, {"\""})
    IN  IF j = 0 \/ (\E k \in (i + 1)..(j - 1) : s[k] \in {"\n", "\t"})
        THEN ScanFail
        ELSE [ok |-> TRUE, next |-> j + 1, val |-> PyStr(SubSeq(s, i + 1, j - 1))]

\* -?(0|[1-9][0-9]*)
ScanNumber(s, i) ==
    LET neg == At(s, i) = "-"
        st  == IF neg THEN i + 1 ELSE i
        e   == IF At(s, st) = "0" THEN st ELSE RunEnd(s, st, Digits)
        n   == StrToInt(SubSeq(s, st, e))
    IN  IF e < st THEN ScanFail
        ELSE [ok |-> TRUE, next |-> e + 1,
              val |-> PyInt(IF neg THEN 0 - n ELSE n)]

ScanValue(s, i) ==
    CASE At(s, i) = "\""               -> ScanString(s, i)
      [] At(s, i) \in Digits \cup {"-"} -> ScanNumber(s, i)
      [] MatchAt(s, S_true, i)  -> [ok |-> TRUE, next |-> i + 4, val |-> PyBool(TRUE)]
      [] MatchAt(s, S_false, i) -> [ok |-> TRUE, next |-> i + 5, val |-> PyBool(FALSE)]
      [] MatchAt(s, S_null, i)  -> [ok |-> TRUE, next |-> i + 4, val |-> PyNone]
      [] OTHER -> ScanFail

\* the members of the object from index i on, added to dict d; a repeated
\* key keeps its last value
RECURSIVE ScanMembers(_, _, _)
ScanMembers(s, i, d) ==
    LET i0 == SkipWs(s, i)
        k  == IF At(s, i0) = "\"" THEN ScanString(s, i0) ELSE ScanFail
        i1 == SkipWs(s, k.next)
        i2 == SkipWs(s, i1 + 1)
        v  == ScanValue(s, i2)
        i3 == SkipWs(s, v.next)
        d2 == Put(d, k.val.v, v.val)
    IN  IF ~k.ok \/ At(s, i1) # ":" THEN ScanFail
        ELSE IF ~v.ok THEN ScanFail
        ELSE IF At(s, i3) = "}" THEN [ok |-> TRUE, next |-> i3 + 1, val |-> d2]
        ELSE IF At(s, i3) = "," THEN ScanMembers(s, i3 + 1, d2)
        ELSE ScanFail

\* json.loads(g): ok is FALSE where the code gets a JSONDecodeError
json_loads(g) ==
    LET i0 == SkipWs(g, 2)
        r  == IF At(g, i0) = "}"
              THEN [ok |-> TRUE, next |-> i0 + 1, val |-> EmptyDict]
              ELSE ScanMembers(g, 2, EmptyDict)
    IN  IF At(g, 1) = "{" /\ r.ok /\ r.next = Len(g) + 1
        THEN [ok |-> TRUE, val |-> r.val]
        ELSE [ok |-> FALSE, val |-> EmptyDict]

----------------------------------------------------------------------------
(* The regular expressions of parse_action *)

\* re.search(r'\{[^{}]*"action"[^{}]*\}', response_text, re.DOTALL):
\* the leftmost '{' whose next brace is a '}' with "action" in between
json_match(s) ==
    LET closeOf(i) == NextIndexOf(s, i + 1, {"{", "}"})
        cands == {i \in 1..Len(s) :
                    /\ s[i] = "{"
                    /\ closeOf(i) # 0
                    /\ s[closeOf(i)] = "}"
                    /\ Contains(SubSeq(s, i + 1, closeOf(i) - 1),
                                Q \o S_action \o Q)}
    IN  IF cands = {} THEN [found |-> FALSE, group |-> <<>>]
        ELSE [found |-> TRUE,
              group |-> SubSeq(s, Min(cands), closeOf(Min(cands)))]

\* [,\s]
CommaOrSpace == Spaces \cup {","}

\* [:\s]
ColonOrSpace == Spaces \cup {":"}

\* [a-z+]
KeyChars == LowerLetters \cup {"+"}

\* re.search(r'click.*?(\d+)[,\s]+(\d+)', text_lower): from the leftmost
\* "click" that can be completed, the lazy .*? (which does not cross a
\* newline) stops at the first run of digits that is followed by
\* separators and another digit
click_match(tl) ==
    LET ok(p, q) ==
            /\ \A k \in (p + 5)..(q - 1) : tl[k] # "\n"
            /\ tl[q] \in Digits
            /\ LET e1 == RunEnd(tl, q, Digits)
                   e2 == RunEnd(tl, e1 + 1, CommaOrSpace)
               IN  e2 > e1 /\ At(tl, e2 + 1) \in Digits
        qs(p) == {q \in (p + 5)..Len(tl) : ok(p, q)}
        ps == {p \in 1..Len(tl) : MatchAt(tl, S_click, p) /\ qs(p) # {}}
    IN  IF ps = {} THEN [found |-> FALSE, g1 |-> <<>>, g2 |-> <<>>]
        ELSE LET q  == Min(qs(Min(ps)))
                 e1 == RunEnd(tl, q, Digits)
                 e2 == RunEnd(tl, e1 + 1, CommaOrSpace)
             IN  [found |-> TRUE,
                  g1 |-> SubSeq(tl, q, e1),
                  g2 |-> SubSeq(tl, e2 + 1, RunEnd(tl, e2 + 1, Digits))]

\* re.search(r'type[:\s]+"([^"]+)"', response_text)
type_match(s) ==
    LET sepEnd(p) == RunEnd(s, p + 4, ColonOrSpace)
        close(p)  == NextIndexOf(s, sepEnd(p) + 2, {"\""})
        ps == {p \in 1..Len(s) :
                 /\ MatchAt(s, S_type, p)
                 /\ sepEnd(p) >= p + 4
                 /\ At(s, sepEnd(p) + 1) = "\""
                 /\ close(p) > sepEnd(p) + 2}
    IN  IF ps = {} THEN [found |-> FALSE, g1 |-> <<>>]
        ELSE [found |-> TRUE,
              g1 |-> SubSeq(s, sepEnd(Min(ps)) + 2, close(Min(ps)) - 1)]

\* re.search(r'press[:\s]+([a-z+]+)', text_lower)
key_match(tl) ==
    LET sepEnd(p) == RunEnd(tl, p + 5, ColonOrSpace)
        ps == {p \in 1..Len(tl) :
                 /\ MatchAt(tl, S_press, p)
                 /\ sepEnd(p) >= p + 5
                 /\ At(tl, sepEnd(p) + 1) \in KeyChars}
    IN  IF ps = {} THEN [found |-> FALSE, g1 |-> <<>>]
        ELSE [found |-> TRUE,
              g1 |-> SubSeq(tl, sepEnd(Min(ps)) + 1,
                            RunEnd(tl, sepEnd(Min(ps)) + 1, KeyChars))]

----------------------------------------------------------------------------
(* parse_action *)

\* a completion test without its "task complete" alternative
completion_only_done(tl) == Contains(tl, S_done) /\ ~Contains(tl, S_click)

\* a completion test that does not look for "click"
completion_ignoring_click(tl) ==
    Contains(tl, S_task_complete) \/ Contains(tl, S_done)

\* the completion test of line 133; Python's  and  binds tighter than  or
completion_heuristic(tl) ==
    \/ Contains(tl, S_task_complete)
    \/ (Contains(tl, S_done) /\ ~Contains(tl, S_click))

\* a parser that tries the click pattern before the completion test
parse_step_click_first(text) ==
    LET jm == json_match(text)
        tl == lower(text)
    IN  IF jm.found /\ json_loads(jm.group).ok THEN "json"
        ELSE IF click_match(tl).found THEN "click"
        ELSE IF completion_heuristic(tl) THEN "done"
        ELSE IF type_match(text).found THEN "type"
        ELSE IF key_match(tl).found THEN "key"
        ELSE "unknown"

\* which step of parse_action returns for text
parse_step(text) ==
    LET jm == json_match(text)
        tl == lower(text)
    IN  IF jm.found /\ json_loads(jm.group).ok THEN "json"
        ELSE IF completion_heuristic(tl) THEN "done"
        ELSE IF click_match(tl).found THEN "click"
        ELSE IF type_match(text).found THEN "type"
        ELSE IF key_match(tl).found THEN "key"
        ELSE "unknown"

\* the dict parse_action returns
parse_action(text) ==
    LET tl  == lower(text)
        stp == parse_step(text)
    IN  CASE stp = "json" -> json_loads(json_match(text).group).val
          [] stp = "done" ->
                Put(Put(EmptyDict, S_action, PyStr(S_done)),
                    S_reason, PyStr(text))
          [] stp = "click" ->
                Put(Put(Put(EmptyDict, S_action, PyStr(S_click)),
                        S_x, PyInt(StrToInt(click_match(tl).g1))),
                    S_y, PyInt(StrToInt(click_match(tl).g2)))
          [] stp = "type" ->
                Put(Put(EmptyDict, S_action, PyStr(S_type)),
                    S_text, PyStr(type_match(text).g1))
          [] stp = "key" ->
                Put(Put(EmptyDict, S_action, PyStr(S_key)),
                    S_key, PyStr(key_match(tl).g1))
          [] OTHER ->
                Put(Put(EmptyDict, S_action, PyStr(S_unknown)),
                    S_raw, PyStr(text))

----------------------------------------------------------------------------
(* The helper wrappers and execute_action.  A wrapper yields the helper    *)
(* commands it issues, in order (the arguments that follow CUA_HELPER),    *)
(* and the pauses it makes between them, or raises before it issues any:   *)
(* subprocess.run raises TypeError for an argument that is not a string.   *)

SCREEN_WIDTH == 2560
SCREEN_HEIGHT == 1080

NoCalls == <<>>
Raise == [raises |-> TRUE, calls |-> NoCalls]
Issue(cmds) == [raises |-> FALSE, calls |-> cmds]

\* time.sleep of ms milliseconds
Sleep(ms) == <<S_sleep, ms>>
IsSleep(cmd) == cmd[1] = S_sleep

\* a click that ignores double
click_once(x, y, button, double) ==
    IF button.t # "str" THEN Raise
    ELSE Issue(<<<<S_click, PyToStr(x), PyToStr(y), button.v>>>>)

\* click(x, y, button, double): a second click after time.sleep(0.1)
click(x, y, button, double) ==
    LET cmd == <<S_click, PyToStr(x), PyToStr(y), button.v>>
    IN  IF button.t # "str" THEN Raise
        ELSE IF Truthy(double) THEN Issue(<<cmd, Sleep(<<"1", "0", "0">>), cmd>>)
        ELSE Issue(<<cmd>>)

\* type_text(text)
type_text(text) ==
    IF text.t # "str" THEN Raise ELSE Issue(<< <<S_type, text.v>> >>)

\* press_key(key)
press_key(key) ==
    IF key.t # "str" THEN Raise ELSE Issue(<< <<S_key, key.v>> >>)

\* delta = -amount if direction == "down" else amount
scroll_delta(direction, amount) ==
    IF direction = PyStr(S_down) THEN PyInt(0 - NumVal(amount)) ELSE amount

\* scroll(x, y, direction, amount): -amount raises for a str or None
scroll(x, y, direction, amount) ==
    IF direction = PyStr(S_down) /\ ~IsNumber(amount) THEN Raise
    ELSE Issue(<< <<S_scroll, PyToStr(x), PyToStr(y),
                    PyToStr(scroll_delta(direction, amount))>> >>)

\* time.sleep(ms / 1000) raises for a ms that is no number or is negative
wait_raises(ms) == ~IsNumber(ms) \/ NumVal(ms) < 0

\* a dispatch that sends wait to the scroll branch
action_branch_wait_scrolls(act) ==
    LET action_type == Get(act, S_action, PyStr(S_unknown))
    IN  CASE action_type = PyStr(S_done)   -> "done"
          [] action_type = PyStr(S_click)  -> "click"
          [] action_type = PyStr(S_type)   -> "type"
          [] action_type = PyStr(S_key)    -> "key"
          [] action_type \in {PyStr(S_scroll), PyStr(S_wait)} -> "scroll"
          [] OTHER -> "unknown"

\* action.get("action", "unknown"), reduced to the branch execute_action
\* takes: every value that is none of the six names takes the else branch
action_branch(act) ==
    LET action_type == Get(act, S_action, PyStr(S_unknown))
    IN  CASE action_type = PyStr(S_done)   -> "done"
          [] action_type = PyStr(S_click)  -> "click"
          [] action_type = PyStr(S_type)   -> "type"
          [] action_type = PyStr(S_key)    -> "key"
          [] action_type = PyStr(S_scroll) -> "scroll"
          [] action_type = PyStr(S_wait)   -> "wait"
          [] OTHER -> "unknown"

\* execute_action that returns True for done too
execute_returns_always(branch) == TRUE

\* execute_action that returns False for an unknown action too
execute_returns_unknown_stops(branch) == branch \notin {"done", "unknown"}

\* the value execute_action returns when it returns: False for done only
execute_returns(branch) == branch # "done"

\* execute_action(action): whether it raises before any helper command
\* (raises), the helper commands it issues (calls) and the value it returns
\* when no command fails (ret)
execute_action(act) ==
    LET branch == action_branch(act)
        plan ==
          CASE branch = "done" -> Issue(NoCalls)
            [] branch = "click" ->
                 IF S_x \notin DOMAIN act \/ S_y \notin DOMAIN act
                 THEN Raise
                 ELSE click(act[S_x], act[S_y],
                            Get(act, S_button, PyStr(S_left)),
                            Get(act, S_double, PyBool(FALSE)))
            [] branch = "type" ->
                 IF S_text \notin DOMAIN act \/ act[S_text].t # "str"
                 THEN Raise
                 ELSE type_text(act[S_text])
            [] branch = "key" ->
                 IF S_key \notin DOMAIN act THEN Raise
                 ELSE press_key(act[S_key])
            [] branch = "scroll" ->
                 scroll(Get(act, S_x, PyInt(SCREEN_WIDTH \div 2)),
                        Get(act, S_y, PyInt(SCREEN_HEIGHT \div 2)),
                        Get(act, S_direction, PyStr(S_down)),
                        Get(act, S_amount, PyInt(3)))
            [] branch = "wait" ->
                 IF wait_raises(Get(act, S_ms, PyInt(1000))) THEN Raise
                 ELSE Issue(<<Sleep(IntToStr(NumVal(Get(act, S_ms, PyInt(1000)))))>>)
            [] OTHER -> Issue(NoCalls)
    IN  [branch |-> branch, raises |-> plan.raises, calls |-> plan.calls,
         ret |-> execute_returns(branch)]

----------------------------------------------------------------------------
(* The replies the model endpoint gives in the runs of the loop *)

StrLit(s) == Q \o s \o Q
Member(k, v) == StrLit(k) \o <<":">> \o v
Obj(body) == <<"{">> \o body \o <<"}">>
Comma == <<",">>
ActionIs(name) == Member(S_action, StrLit(name))

\* {"action":"done","reason":"ok"}
R_done == Obj(ActionIs(S_done) \o Comma \o Member(S_reason, StrLit(<<"o", "k">>)))
\* {"action":"click","x":12,"y":7}
R_click ==
    Obj(ActionIs(S_click) \o Comma \o Member(S_x, <<"1", "2">>)
        \o Comma \o Member(S_y, <<"7">>))
\* {"action":"click","x":12,"y":7,"double":true}
R_double ==
    Obj(ActionIs(S_click) \o Comma \o Member(S_x, <<"1", "2">>)
        \o Comma \o Member(S_y, <<"7">>) \o Comma \o Member(S_double, S_true))
\* {"action":"click"}
R_click_no_xy == Obj(ActionIs(S_click))
\* {"action":"type"}
R_type_no_text == Obj(ActionIs(S_type))
\* {"action":"key"}
R_key_no_key == Obj(ActionIs(S_key))
\* {"action":"wait","ms":-5}
R_wait_negative == Obj(ActionIs(S_wait) \o Comma \o Member(S_ms, <<"-", "5">>))
\* {"action":"wait","ms":"5"}
R_wait_string == Obj(ActionIs(S_wait) \o Comma \o Member(S_ms, StrLit(<<"5">>)))
\* {"action":"wait","ms":5}
R_wait == Obj(ActionIs(S_wait) \o Comma \o Member(S_ms, <<"5">>))
\* {"action":"scroll"}
R_scroll == Obj(ActionIs(S_scroll))
\* {"action":"fly"}
R_fly == Obj(ActionIs(<<"f", "l", "y">>))
\* the empty reply, and a reply no parser step matches
R_empty == <<>>
R_prose == <<"h", "m", "m">>
\* click at 12, 7
R_click_prose ==
    S_click \o <<" ", "a", "t", " ", "1", "2", ",", " ", "7">>

Replies ==
    {R_done, R_click, R_double, R_click_no_xy, R_type_no_text, R_key_no_key,
     R_wait_negative, R_wait_string, R_wait, R_scroll, R_fly, R_empty,
     R_prose, R_click_prose}

----------------------------------------------------------------------------
(* The agent loop *)

\* the largest max_steps of a run
MaxSteps == 3

VARIABLES
    pc,                 \* the statement the program is at
    ANTHROPIC_API_KEY,  \* TRUE when load_api_key found a credential
    helper_present,     \* TRUE when the CUA_HELPER executable exists
    max_steps,          \* the argument of run_cua_loop
    step,               \* the loop variable of line 235
    messages,           \* the transcript
    response_text,      \* the reply text of the current step
    action,             \* the dict parse_action returned in the current step
    pending,            \* helper commands and pauses execute_action has still to make
    helper_log,         \* every helper input command issued, with its outcome,
                        \* and every pause of execute_action
    steps_started,      \* iterations of the loop body begun (line 236)
    n_screenshots,      \* screenshots taken
    n_model_calls,      \* calls of call_claude
    state,              \* Running, Done, Exhausted or Failed
    error,              \* what failed: none, screenshot, model, execute, helper
    outcome,            \* what the caller of run_cua_loop gets
    prev                \* state and outcome of the previous run, if any

vars ==
    <<pc, ANTHROPIC_API_KEY, helper_present, max_steps, step, messages,
      response_text, action, pending, helper_log, steps_started,
      n_screenshots, n_model_calls, state, error, outcome, prev>>

env == <<ANTHROPIC_API_KEY, helper_present>>
counters == <<steps_started, n_screenshots, n_model_calls>>

UserTurn == [role |-> "user", content |-> S_screenshot]
AssistantTurn(text) == [role |-> "assistant", content |-> text]

\* an append that drops the turns before the new one
append_replacing(list, turn) == <<turn>>

\* messages.append(turn)
append(list, turn) == Append(list, turn)

NoRun == [state |-> "none", outcome |-> "none"]

\* the state in which a run of the program begins
Fresh(entry, n) ==
    /\ pc = entry
    /\ max_steps = n
    /\ step = 0
    /\ messages = <<>>
    /\ response_text = <<>>
    /\ action = EmptyDict
    /\ pending = <<>>
    /\ helper_log = <<>>
    /\ steps_started = 0
    /\ n_screenshots = 0
    /\ n_model_calls = 0
    /\ state = "NotStarted"
    /\ error = "none"
    /\ outcome = "none"

Init ==
    /\ ANTHROPIC_API_KEY \in BOOLEAN
    /\ helper_present \in BOOLEAN
    /\ prev = NoRun
    /\ \E entry \in {"main", "run_cua_loop"}, n \in 0..MaxSteps : Fresh(entry, n)

\* the loop is left: by break or exhaustion (the function returns None) or
\* by an exception that leaves run_cua_loop
Finish(st, err, out) ==
    /\ pc' = "finished"
    /\ state' = st
    /\ error' = err
    /\ outcome' = out
    /\ pending' = <<>>

\* except Exception (lines 295-300): report and break
Caught(err) == Finish("Failed", err, "returned")

\* main (lines 317-322)
main ==
    /\ pc = "main"
    /\ IF ~ANTHROPIC_API_KEY
       THEN /\ pc' = "exited"
            /\ outcome' = "exit1"
            /\ UNCHANGED <<state, error, pending>>
       ELSE /\ pc' = "run_cua_loop"
            /\ UNCHANGED <<state, error, outcome, pending>>
    /\ UNCHANGED <<env, max_steps, step, messages, response_text, action,
                   helper_log, counters, prev>>

\* run_cua_loop is entered (lines 226-233)
run_cua_loop ==
    /\ pc = "run_cua_loop"
    /\ pc' = "for"
    /\ state' = "Running"
    /\ messages' = <<>>
    /\ UNCHANGED <<env, max_steps, step, response_text, action, pending,
                   helper_log, counters, error, outcome, prev>>

\* range(max_steps) with one value too many
range_has_next_inclusive(i, n) == i <= n

\* range(max_steps) with one value too few
range_stops_early(i, n) == i < n - 1

\* range(max_steps) has a next value
range_has_next(i, n) == i < n

\* for step in range(max_steps) (lines 235-236)
for_step ==
    /\ pc = "for"
    /\ IF range_has_next(step, max_steps)
       THEN /\ pc' = "take_screenshot"
            /\ steps_started' = steps_started + 1
            /\ UNCHANGED <<state, error, outcome, pending>>
       ELSE /\ Finish("Exhausted", "none", "returned")
            /\ UNCHANGED steps_started
    /\ UNCHANGED <<env, max_steps, step, messages, response_text, action,
                   helper_log, n_screenshots, n_model_calls, prev>>

\* an iteration that executes the action it has without asking the model
take_screenshot_then_execute ==
    /\ pc = "take_screenshot"
    /\ n_screenshots' = n_screenshots + 1
    /\ messages' = append(messages, UserTurn)
    /\ pc' = "execute_action"
    /\ UNCHANGED <<state, error, outcome, pending>>
    /\ UNCHANGED <<env, max_steps, step, response_text, action, helper_log,
                   steps_started, n_model_calls, prev>>

\* a take_screenshot inside the try block: its exception is caught
take_screenshot_caught ==
    /\ pc = "take_screenshot"
    /\ \E ok \in BOOLEAN :
         /\ ok => helper_present
         /\ IF ok
            THEN /\ n_screenshots' = n_screenshots + 1
                 /\ messages' = append(messages, UserTurn)
                 /\ pc' = "call_claude"
                 /\ UNCHANGED <<state, error, outcome, pending>>
            ELSE /\ Caught("screenshot")
                 /\ UNCHANGED <<n_screenshots, messages>>
    /\ UNCHANGED <<env, max_steps, step, response_text, action, helper_log,
                   steps_started, n_model_calls, prev>>

\* take_screenshot and the user turn (lines 240-265); its exception is
\* raised outside the try block and leaves run_cua_loop
take_screenshot ==
    /\ pc = "take_screenshot"
    /\ \E ok \in BOOLEAN :
         /\ ok => helper_present
         /\ IF ok
            THEN /\ n_screenshots' = n_screenshots + 1
                 /\ messages' = append(messages, UserTurn)
                 /\ pc' = "call_claude"
                 /\ UNCHANGED <<state, error, outcome, pending>>
            ELSE /\ Finish("Failed", "screenshot", "raised")
                 /\ UNCHANGED <<n_screenshots, messages>>
    /\ UNCHANGED <<env, max_steps, step, response_text, action, helper_log,
                   steps_started, n_model_calls, prev>>

\* an except clause that goes on with the next iteration after a failed
\* model call
on_model_error_continue ==
    /\ pc' = "sleep"
    /\ error' = "model"
    /\ pending' = <<>>
    /\ UNCHANGED <<state, outcome>>

\* what the loop does when call_claude raises
on_model_error == Caught("model")

\* call_claude (lines 270-281): it raises without a credential, on a
\* network error and on a response that is not 2xx
call_claude ==
    /\ pc = "call_claude"
    /\ n_model_calls' = n_model_calls + 1
    /\ \/ /\ on_model_error
          /\ UNCHANGED response_text
       \/ /\ ANTHROPIC_API_KEY
          /\ \E r \in Replies : response_text' = r
          /\ pc' = "append_assistant"
          /\ UNCHANGED <<state, error, outcome, pending>>
    /\ UNCHANGED <<env, max_steps, step, messages, action, helper_log,
                   steps_started, n_screenshots, prev>>

\* an iteration that does not append the reply
append_assistant_skipped ==
    /\ pc = "append_assistant"
    /\ pc' = "parse_action"
    /\ UNCHANGED <<env, max_steps, step, messages, response_text, action,
                   pending, helper_log, counters, state, error, outcome, prev>>

\* messages.append of the reply (line 284)
append_assistant ==
    /\ pc = "append_assistant"
    /\ messages' = append(messages, AssistantTurn(response_text))
    /\ pc' = "parse_action"
    /\ UNCHANGED <<env, max_steps, step, response_text, action, pending,
                   helper_log, counters, state, error, outcome, prev>>

\* parse_action on every reply of the model, computed once: the pairs of a
\* reply and the dict parse_action returns for it
parsed_replies == {<<r, parse_action(r)>> : r \in Replies}
parsed(r) ==
    IF r \in Replies THEN (CHOOSE p \in parsed_replies : p[1] = r)[2]
    ELSE parse_action(r)

\* action = parse_action(response_text) (line 287)
parse ==
    /\ pc = "parse_action"
    /\ action' = parsed(response_text)
    /\ pc' = "execute_action"
    /\ UNCHANGED <<env, max_steps, step, messages, response_text, pending,
                   helper_log, counters, state, error, outcome, prev>>

\* what the loop does when execute_action returned ret (lines 289-293)
after_execute(ret) ==
    IF ret
    THEN /\ pc' = "sleep"
         /\ UNCHANGED <<state, error, outcome>>
         /\ pending' = <<>>
    ELSE Finish("Done", "none", "returned")

\* execute_action up to its first helper command (line 289)
execute ==
    /\ pc = "execute_action"
    /\ LET plan == execute_action(action)
       IN  IF plan.raises THEN Caught("execute")
           ELSE IF plan.calls = NoCalls THEN after_execute(plan.ret)
           ELSE /\ pc' = "helper"
                /\ pending' = plan.calls
                /\ UNCHANGED <<state, error, outcome>>
    /\ UNCHANGED <<env, max_steps, step, messages, response_text, action,
                   helper_log, counters, prev>>

\* an except clause that goes on with the next iteration after a failed
\* helper command
on_helper_error_continue ==
    /\ pc' = "sleep"
    /\ error' = "helper"
    /\ pending' = <<>>
    /\ UNCHANGED <<state, outcome>>

\* what the loop does when a helper command fails: check=True raises
\* CalledProcessError, which the except of line 295 catches
on_helper_error == Caught("helper")

\* helper commands run without check=True: a failure is logged and the
\* commands that remain are issued
helper_call_unchecked ==
    /\ pc = "helper"
    /\ \E ok \in BOOLEAN :
         /\ IsSleep(Head(pending)) => ok
         /\ helper_log' = Append(helper_log, [cmd |-> Head(pending), ok |-> ok])
         /\ IF Len(pending) > 1
            THEN /\ pending' = Tail(pending)
                 /\ UNCHANGED <<pc, state, error, outcome>>
            ELSE after_execute(TRUE)
    /\ UNCHANGED <<env, max_steps, step, messages, response_text, action,
                   counters, prev>>

\* one subprocess.run of a click, type, key or scroll command, or one
\* time.sleep of execute_action, which does not fail
helper_call ==
    /\ pc = "helper"
    /\ \E ok \in BOOLEAN :
         /\ IsSleep(Head(pending)) => ok
         /\ helper_log' = Append(helper_log, [cmd |-> Head(pending), ok |-> ok])
         /\ IF ~ok THEN on_helper_error
            ELSE IF Len(pending) > 1
            THEN /\ pending' = Tail(pending)
                 /\ UNCHANGED <<pc, state, error, outcome>>
            ELSE after_execute(TRUE)
    /\ UNCHANGED <<env, max_steps, step, messages, response_text, action,
                   counters, prev>>

\* time.sleep(0.5) and the next value of range (line 293)
sleep ==
    /\ pc = "sleep"
    /\ step' = step + 1
    /\ pc' = "for"
    /\ UNCHANGED <<env, max_steps, messages, response_text, action, pending,
                   helper_log, counters, state, error, outcome, prev>>

\* run_cua_loop is called again: nothing of the finished run survives but
\* what its caller saw
next_run ==
    /\ pc = "finished"
    /\ prev' = [state |-> state, outcome |-> outcome]
    /\ \E n \in 0..MaxSteps :
         /\ pc' = "run_cua_loop"
         /\ max_steps' = n
         /\ step' = 0
         /\ messages' = <<>>
         /\ response_text' = <<>>
         /\ action' = EmptyDict
         /\ pending' = <<>>
         /\ helper_log' = <<>>
         /\ steps_started' = 0
         /\ n_screenshots' = 0
         /\ n_model_calls' = 0
         /\ state' = "NotStarted"
         /\ error' = "none"
         /\ outcome' = "none"
    /\ UNCHANGED env

Step ==
    \/ main
    \/ run_cua_loop
    \/ for_step
    \/ take_screenshot
    \/ call_claude
    \/ append_assistant
    \/ parse
    \/ execute
    \/ helper_call
    \/ sleep

Next == Step \/ next_run

Spec == Init /\ [][Next]_vars

\* the program is sequential: it always takes its next step
FairSpec == Spec /\ WF_vars(Step)

----------------------------------------------------------------------------
(* One iteration from the reply on, for reply texts of every shape: the    *)
(* loop has taken the screenshot of its first step and call_claude has     *)
(* returned the text; parse_action and execute_action follow.              *)

\* the largest number of pieces a composed reply text is made of
MaxPieces == 3

S_Task_Complete ==
    <<"T", "a", "s", "k", " ", "C", "o", "m", "p", "l", "e", "t", "e">>
\* a brace group with "action" in it that json.loads rejects: {"action"}
R_undecodable == Obj(StrLit(S_action))

\* the pieces of a composed reply text
Pieces ==
    {S_click, S_done, S_Task_Complete,
     <<" ", "1", "2", ",", " ", "7">>,
     <<"\n", "1", "2", " ", "7">>,
     R_click, R_undecodable,
     S_type \o <<":", " ", "\"", "h", "i", "\"">>,
     S_press \o <<" ", "e", "n", "t", "e", "r">>}

\* the texts of at most n pieces
RECURSIVE PieceTexts(_)
PieceTexts(n) ==
    IF n = 0 THEN {<<>>}
    ELSE LET shorter == PieceTexts(n - 1)
         IN  shorter \cup {t \o p : t \in shorter, p \in Pieces}

\* {"action":"click","x":a,"y":b}
Coords == {-1, 0, 7, 12}
click_json(a, b) ==
    Obj(ActionIs(S_click) \o Comma \o Member(S_x, IntToStr(a))
        \o Comma \o Member(S_y, IntToStr(b)))

\* prose without a brace, and prose with braces
PlainProse ==
    {<<>>, <<"o", "k", " ">>, <<" ", "o", "k">>, S_Task_Complete, S_done \o <<"\n">>,
     <<" ">> \o S_press \o <<" ", "a">>}
BraceProse ==
    {<<"{", " ">>, <<" ", "}">>, R_undecodable \o <<" ">>}
Prose == PlainProse \cup BraceProse

ClickTexts ==
    {p \o click_json(a, b) \o q : p \in Prose, q \in Prose,
                                  a \in Coords, b \in Coords}

\* {"action":"click","x":12,"y":7,"button":"right","double":true}
R_right_double ==
    Obj(ActionIs(S_click) \o Comma \o Member(S_x, <<"1", "2">>)
        \o Comma \o Member(S_y, <<"7">>)
        \o Comma \o Member(S_button, StrLit(<<"r", "i", "g", "h", "t">>))
        \o Comma \o Member(S_double, S_true))

\* {"action":"scroll"} with and without a direction and an amount
Directions == {S_down, <<"u", "p">>, S_left, <<"r", "i", "g", "h", "t">>}
Amounts == {-3, 0, 3}
OptMember(k, vs) == {<<>>} \cup {Comma \o Member(k, v) : v \in vs}
ScrollTexts ==
    {Obj(ActionIs(S_scroll) \o d \o a) :
        d \in OptMember(S_direction, {StrLit(x) : x \in Directions}),
        a \in OptMember(S_amount, {IntToStr(n) : n \in Amounts})}

\* {"action":"wait"} with and without ms
Pauses == {0, 5, 1000}
WaitTexts ==
    {Obj(ActionIs(S_wait) \o m) :
        m \in OptMember(S_ms, {IntToStr(n) : n \in Pauses})}

\* I will click on the button at 120, 340 now
R_scenario_2 ==
    <<"I", " ", "w", "i", "l", "l", " ">> \o S_click
    \o <<" ", "o", "n", " ", "t", "h", "e", " ", "b", "u", "t", "t", "o", "n",
          " ", "a", "t", " ", "1", "2", "0", ",", " ", "3", "4", "0",
          " ", "n", "o", "w">>

Texts ==
    PieceTexts(MaxPieces) \cup ClickTexts \cup ScrollTexts \cup WaitTexts
    \cup Replies \cup {R_right_double, R_scenario_2}

ParseInit ==
    /\ ANTHROPIC_API_KEY = TRUE
    /\ helper_present = TRUE
    /\ prev = NoRun
    /\ pc = "parse_action"
    /\ max_steps = MaxSteps
    /\ step = 0
    /\ \E t \in Texts :
         /\ response_text = t
         /\ messages = <<UserTurn, AssistantTurn(t)>>
    /\ action = EmptyDict
    /\ pending = <<>>
    /\ helper_log = <<>>
    /\ steps_started = 1
    /\ n_screenshots = 1
    /\ n_model_calls = 1
    /\ state = "Running"
    /\ error = "none"
    /\ outcome = "none"

ParseNext == parse \/ execute \/ helper_call

ParseSpec == ParseInit /\ [][ParseNext]_vars

----------------------------------------------------------------------------
(* Properties *)

AssistantTurns ==
    Cardinality({i \in 1..Len(messages) : messages[i].role = "assistant"})

\* every step taken from a state of P is the caller's next call of
\* run_cua_loop: the run the state belongs to does nothing more
NothingMore(P) == P => (pc' = "run_cua_loop" /\ state' = "NotStarted")

\* C1: one call of run_cua_loop begins at most max_steps iterations, takes
\* at most max_steps screenshots and calls the model at most max_steps
\* times, and every call of run_cua_loop ends.
C1_StepBudget ==
    /\ [](/\ steps_started <= max_steps
          /\ n_screenshots <= max_steps
          /\ n_model_calls <= max_steps)
    /\ (pc = "run_cua_loop" ~> pc = "finished")

C1_Witness ==
    /\ pc = "finished"
    /\ max_steps = MaxSteps
    /\ n_screenshots = max_steps
    /\ n_model_calls = max_steps

\* C2: executing a done action makes execute_action return False and ends
\* the loop in Done in that step, whatever budget remains: nothing is sent
\* to the helper for it and the run takes no screenshot and makes no model
\* call afterwards; a run whose first reply is done ends after one step.
C2_DoneStops ==
    /\ [](state = "Done" =>
            /\ pc = "finished"
            /\ action_branch(action) = "done"
            /\ steps_started = step + 1
            /\ n_screenshots = step + 1
            /\ n_model_calls = step + 1)
    /\ [][(pc = "execute_action" /\ action_branch(action) = "done") =>
            (state' = "Done" /\ UNCHANGED <<helper_log, counters, messages>>)]_vars
    /\ [][NothingMore(state = "Done")]_vars

C2_Witness ==
    /\ state = "Done"
    /\ response_text = R_done
    /\ steps_started = 1
    /\ n_model_calls = 1
    /\ max_steps = MaxSteps

\* C3: a failed model call ends the loop in Failed in the same step and is
\* not retried: no assistant turn is appended for it, nothing is parsed or
\* sent to the helper, and the run takes no screenshot and makes no model
\* call afterwards.
C3_ModelFailureFatal ==
    /\ [](error = "model" =>
            /\ pc = "finished"
            /\ state = "Failed"
            /\ messages[Len(messages)].role = "user"
            /\ AssistantTurns = n_model_calls - 1
            /\ n_model_calls = steps_started
            /\ n_screenshots = steps_started)
    /\ [][(error' = "model" /\ error = "none") =>
            (pc = "call_claude" /\
             UNCHANGED <<messages, action, helper_log, n_screenshots>>)]_vars
    /\ [][NothingMore(error = "model")]_vars

C3_Witness ==
    /\ error = "model"
    /\ ANTHROPIC_API_KEY
    /\ steps_started = 2
    /\ max_steps = MaxSteps

\* C4: a failing click, type, key or scroll command ends the loop in Failed
\* at once, whatever budget remains: the failed command is the last one
\* issued and the run takes no screenshot and makes no model call
\* afterwards.
C4_HelperFailureFatal ==
    /\ [](error = "helper" =>
            /\ pc = "finished"
            /\ state = "Failed"
            /\ ~helper_log[Len(helper_log)].ok
            /\ n_model_calls = steps_started
            /\ n_screenshots = steps_started)
    /\ [][(pc = "helper" /\ Len(helper_log') > Len(helper_log)
           /\ ~helper_log'[Len(helper_log')].ok) => error' = "helper"]_vars
    /\ [][NothingMore(error = "helper")]_vars

C4_Witness ==
    /\ error = "helper"
    /\ helper_log = <<[cmd |-> <<S_click, <<"1", "2">>, <<"7">>, S_left>>,
                       ok |-> FALSE]>>
    /\ steps_started = 1
    /\ max_steps = MaxSteps

\* C5: the loop ends in Exhausted exactly when the step counter reaches
\* max_steps after steps that all continued: it has then made max_steps
\* model calls and nothing failed, and a run that ends in Done or Failed
\* ends before the counter reaches max_steps.
C5_Exhausted ==
    /\ state = "Exhausted" =>
         /\ pc = "finished"
         /\ step = max_steps
         /\ n_model_calls = max_steps
         /\ n_screenshots = max_steps
         /\ error = "none"
    /\ (state = "Running" /\ pc = "for") =>
         (step <= max_steps /\ n_model_calls = step)
    /\ state \in {"Done", "Failed"} => step < max_steps

C5_Witness ==
    /\ state = "Exhausted"
    /\ max_steps = 1
    /\ response_text = R_click
    /\ helper_log = <<[cmd |-> <<S_click, <<"1", "2">>, <<"7">>, S_left>>,
                       ok |-> TRUE]>>
    /\ n_model_calls = 1

\* C6: two runs that end in different terminal states give their caller
\* different outcomes (a return value or a raised error).
C6_Distinguishable ==
    (pc = "finished" /\ prev.state # "none" /\ prev.state # state) =>
        prev.outcome # outcome

\* C7: an unknown action is recoverable: execute_action returns True for
\* it without a helper command and the loop stays Running; with budget
\* left the next iteration begins, and its screenshot is followed by a
\* model call.
C7_UnknownContinues ==
    /\ [][(pc = "execute_action" /\ action_branch(action) = "unknown") =>
            (/\ pc' = "sleep"
             /\ state' = "Running"
             /\ error' = "none"
             /\ helper_log' = helper_log)]_vars
    /\ [][pc = "sleep" => (pc' = "for" /\ step' = step + 1)]_vars
    /\ [][(pc = "for" /\ step < max_steps) => pc' = "take_screenshot"]_vars
    /\ [][(pc = "take_screenshot" /\ n_screenshots' > n_screenshots) =>
            pc' = "call_claude"]_vars

C7_Witness ==
    /\ pc = "append_assistant"
    /\ step = 1
    /\ S_action \in DOMAIN action
    /\ action[S_action] = PyStr(S_unknown)
    /\ action[S_raw] = PyStr(R_empty)

\* C8: a malformed reply does not fail the loop: when the model call and
\* the helper commands of a step succeed, the step does not end in Failed.
C8_MalformedNotFatal == error # "execute"

ActionKinds == {S_click, S_type, S_key, S_scroll, S_wait, S_done, S_unknown}

\* C9: parse_action returns an action of the closed set click, type, key,
\* scroll, wait, done, unknown, and unknown with raw equal to the reply
\* text when no parser step matches.
C9_ParseClosedSet ==
    pc = "execute_action" =>
        /\ S_action \in DOMAIN action
        /\ action[S_action].t = "str"
        /\ action[S_action].v \in ActionKinds
        /\ parse_step(response_text) = "unknown" =>
             (action[S_action].v = S_unknown
              /\ action[S_raw] = PyStr(response_text))

\* C10: without a credential or without the helper executable no step is
\* attempted: no iteration begins, no screenshot is taken and no model
\* call is made.
C10_PreconditionsBeforeLoop ==
    (~ANTHROPIC_API_KEY \/ ~helper_present) =>
        (steps_started = 0 /\ n_screenshots = 0 /\ n_model_calls = 0)

----------------------------------------------------------------------------
(* Properties of the transcript and of the order of events in the loop *)

IsPrefix(a, b) == Len(a) <= Len(b) /\ SubSeq(b, 1, Len(a)) = a

\* C17: the transcript is empty when the loop starts and every operation of
\* a run leaves the previous transcript a prefix of the new one: turns are
\* appended, one at a time, and never removed, reordered or edited; a step
\* that ends the run in Failed leaves the transcript as it is.
C17_TranscriptMonotone ==
    /\ []((pc = "for" /\ step = 0) => messages = <<>>)
    /\ [][pc # "finished" =>
            /\ IsPrefix(messages, messages')
            /\ Len(messages') <= Len(messages) + 1]_vars
    /\ [][(pc # "finished" /\ state' = "Failed") => messages' = messages]_vars

C17_Witness ==
    /\ state = "Failed"
    /\ error = "helper"
    /\ step = 1
    /\ messages = <<UserTurn, AssistantTurn(R_wait), UserTurn, AssistantTurn(R_click)>>

\* the statement that follows each statement of an iteration
FollowsInStep(here, there) ==
    CASE here = "take_screenshot"  -> there \in {"call_claude", "finished"}
      [] here = "call_claude"      -> there \in {"append_assistant", "finished"}
      [] here = "append_assistant" -> there = "parse_action"
      [] here = "parse_action"     -> there = "execute_action"
      [] here = "execute_action"   -> there \in {"helper", "sleep", "finished"}
      [] here = "helper"           -> there \in {"helper", "sleep", "finished"}
      [] OTHER -> TRUE

\* C18: in every iteration the screenshot and the user turn come first, then
\* the model call, the assistant turn, parse_action and execute_action; a
\* helper command is issued only after the reply of the same step has been
\* received and appended; no step of the program both calls the model and
\* issues a helper command, and each does one at a time.
C18_StepOrder ==
    /\ [][FollowsInStep(pc, pc')]_vars
    /\ [][(pc = "take_screenshot" /\ pc' = "call_claude") =>
            (messages' = Append(messages, UserTurn)
             /\ n_screenshots' = n_screenshots + 1)]_vars
    /\ [][(pc # "finished" /\ helper_log' # helper_log) =>
            /\ pc = "helper"
            /\ Len(helper_log') = Len(helper_log) + 1
            /\ n_model_calls' = n_model_calls
            /\ n_screenshots = step + 1
            /\ n_model_calls = step + 1
            /\ messages[Len(messages)] = AssistantTurn(response_text)
            /\ Len(messages) = 2 * (step + 1)
            /\ action = parse_action(response_text)]_vars
    /\ [][(pc # "finished" /\ n_model_calls' # n_model_calls) =>
            /\ pc = "call_claude"
            /\ n_model_calls' = n_model_calls + 1
            /\ helper_log' = helper_log
            /\ messages[Len(messages)] = UserTurn
            /\ n_screenshots = n_model_calls + 1]_vars

C18_Witness ==
    /\ pc = "helper"
    /\ step = 1
    /\ response_text = R_double
    /\ Len(helper_log) = 2
    /\ Len(pending) = 2
    /\ n_model_calls = 2

\* the roles of the transcript alternate and the first turn is a user turn
Alternates ==
    \A i \in 1..Len(messages) :
        messages[i].role = (IF i % 2 = 1 THEN "user" ELSE "assistant")

\* the calls of call_claude that returned a reply
SuccessfulModelCalls ==
    n_model_calls - (IF error = "model" THEN 1 ELSE 0)

\* C21: at the model call of step k (step + 1) the transcript has 2k - 1
\* turns, alternates user and assistant and begins and ends with a user
\* turn; once a reply is appended the assistant turns are as many as the
\* model calls that returned; a run that fails at the model call ends with
\* the transcript of that call, whose last user turn has no answer.
C21_TranscriptShape ==
    /\ Alternates
    /\ pc = "call_claude" =>
         /\ Len(messages) = 2 * (step + 1) - 1
         /\ messages[1].role = "user"
         /\ messages[Len(messages)].role = "user"
         /\ n_model_calls = step
    /\ pc # "append_assistant" => AssistantTurns = SuccessfulModelCalls
    /\ pc = "append_assistant" => AssistantTurns = SuccessfulModelCalls - 1
    /\ error = "model" =>
         /\ pc = "finished"
         /\ Len(messages) = 2 * (step + 1) - 1
         /\ messages[Len(messages)].role = "user"
         /\ AssistantTurns = step

C21_Witness ==
    /\ error = "model"
    /\ step = 2
    /\ Len(messages) = 5
    /\ n_model_calls = 3
    /\ AssistantTurns = 2

\* the helper commands of the run that failed
FailedCommands == {i \in 1..Len(helper_log) : ~helper_log[i].ok}

\* C22: at most one helper input command fails in a run; the command that
\* failed is the last thing the run issues: what execute_action had still
\* to issue (the second click of a double click) is dropped, and no
\* screenshot, model call or helper command follows.
C22_OneFailure ==
    /\ [](/\ Cardinality(FailedCommands) <= 1
          /\ FailedCommands # {} =>
               /\ FailedCommands = {Len(helper_log)}
               /\ ~IsSleep(helper_log[Len(helper_log)].cmd)
               /\ pending = <<>>
               /\ pc = "finished")
    /\ [][FailedCommands # {} =>
            (pc' = "run_cua_loop" /\ helper_log' = <<>> /\ n_screenshots' = 0
             /\ n_model_calls' = 0)]_vars
    /\ [][(pc = "helper" /\ FailedCommands' # {}) =>
            (pc' = "finished" /\ pending' = <<>>
             /\ UNCHANGED <<n_screenshots, n_model_calls, messages>>)]_vars

C22_Witness ==
    /\ response_text = R_double
    /\ step = 0
    /\ helper_log = <<[cmd |-> <<S_click, <<"1", "2">>, <<"7">>, S_left>>,
                       ok |-> FALSE]>>
    /\ pending = <<>>
    /\ pc = "finished"
    /\ max_steps = MaxSteps

\* C23: a failing take_screenshot ends the run in that step before anything
\* else happens: no user turn is appended for the step, no model call is
\* made and nothing is executed; the exception is not caught in the loop
\* and reaches the caller, while a failing model call or helper command is
\* caught and run_cua_loop returns. Without the helper executable
\* take_screenshot fails.
C23_ScreenshotFailure ==
    /\ [](error = "screenshot" =>
            /\ pc = "finished"
            /\ state = "Failed"
            /\ outcome = "raised"
            /\ steps_started = step + 1
            /\ n_screenshots = step
            /\ n_model_calls = step
            /\ Len(messages) = 2 * step)
    /\ [](error \in {"model", "helper", "execute"} => outcome = "returned")
    /\ [][(pc = "take_screenshot" /\ n_screenshots' = n_screenshots) =>
            /\ error' = "screenshot"
            /\ UNCHANGED <<messages, n_model_calls, helper_log, action,
                           response_text, step>>]_vars
    /\ [][(pc = "take_screenshot" /\ ~helper_present) =>
            error' = "screenshot"]_vars
    /\ [][error = "screenshot" =>
            (pc' = "run_cua_loop" /\ state' = "NotStarted")]_vars

C23_Witness ==
    /\ error = "screenshot"
    /\ outcome = "raised"
    /\ helper_present
    /\ step = 1
    /\ Len(messages) = 2
    /\ Len(helper_log) = 1

----------------------------------------------------------------------------
(* Properties of parse_action and execute_action on the reply texts *)

\* {"action": "click", "x": a, "y": b}
ClickDict(a, b) ==
    Put(Put(Put(EmptyDict, S_action, PyStr(S_click)), S_x, PyInt(a)),
        S_y, PyInt(b))
\* {"action": "done", "reason": text}
DoneDict(text) ==
    Put(Put(EmptyDict, S_action, PyStr(S_done)), S_reason, PyStr(text))

\* the JSON regular expression matches in text and its match decodes
Decodes(text) ==
    json_match(text).found /\ json_loads(json_match(text).group).ok

\* the helper commands and pauses made so far, without their outcomes
Issued == [i \in 1..Len(helper_log) |-> helper_log[i].cmd]

\* the reply is click_json(a, b) between two proses of ProseSet: the parsed
\* action is the click at (a, b) and its execution is one click at (a, b)
\* with the left button
EmbeddedClick(ProseSet) ==
    \A p \in ProseSet, q \in ProseSet, a \in Coords, b \in Coords :
        (response_text = p \o click_json(a, b) \o q /\ pc # "parse_action") =>
            /\ action = ClickDict(a, b)
            /\ pc \in {"execute_action", "helper", "sleep", "finished"}
            /\ pc = "helper" =>
                 pending = <<<<S_click, IntToStr(a), IntToStr(b), S_left>>>>
            /\ pc \in {"sleep", "finished"} =>
                 Issued = <<<<S_click, IntToStr(a), IntToStr(b), S_left>>>>

\* C11: a reply that holds {"action":"click","x":A,"y":B} inside any prose
\* is parsed as the click at (A, B) and executed as one click with the left
\* button.
C11_EmbeddedClick == EmbeddedClick(Prose)

\* C12 as stated: a text that contains "task complete" in any letter case
\* is parsed as done, whatever else it contains.
C12_TaskCompleteAlways ==
    (pc # "parse_action" /\ Contains(lower(response_text), S_task_complete))
        => Get(action, S_action, PyNone) = PyStr(S_done)

\* C12: a text that contains "task complete" in any letter case and in which
\* no brace group with "action" decodes is parsed as done with the text as
\* its reason, whatever else it contains; execution then ends the loop in
\* Done.
C12_TaskComplete ==
    (/\ pc # "parse_action"
     /\ Contains(lower(response_text), S_task_complete)
     /\ ~Decodes(response_text))
        => /\ action = DoneDict(response_text)
           /\ pc \in {"execute_action", "finished"}
           /\ pc = "finished" => state = "Done"

C12_Witness ==
    /\ response_text = S_click \o S_Task_Complete \o S_done
    /\ pc = "finished"
    /\ state = "Done"
    /\ action = DoneDict(response_text)

\* C13 as stated: on a text that contains both "click" and "done" the
\* completion heuristic does not return done.
C13_ClickBlocksDoneAlways ==
    (/\ pc # "parse_action"
     /\ Contains(lower(response_text), S_click)
     /\ Contains(lower(response_text), S_done)
     /\ ~Decodes(response_text))
        => action # DoneDict(response_text)

\* C13: on a text that contains both "click" and "done" and does not contain
\* "task complete", the completion heuristic does not return done: the
\* action is the object of step 1 when one decodes, and otherwise the click
\* heuristic is tried: the action is the click it finds, and no done when it
\* finds none.
C13_ClickBlocksDone ==
    (/\ pc # "parse_action"
     /\ Contains(lower(response_text), S_click)
     /\ Contains(lower(response_text), S_done)
     /\ ~Contains(lower(response_text), S_task_complete))
        => IF Decodes(response_text)
           THEN action = json_loads(json_match(response_text).group).val
           ELSE LET cm == click_match(lower(response_text))
                IN  /\ Get(action, S_action, PyNone) # PyStr(S_done)
                    /\ cm.found =>
                         action = ClickDict(StrToInt(cm.g1), StrToInt(cm.g2))
                    /\ state # "Done"

C13_Witness ==
    /\ response_text = S_click \o S_done \o <<" ", "1", "2", ",", " ", "7">>
    /\ action = ClickDict(12, 7)
    /\ pc = "sleep"

\* |n|
Abs(n) == IF n < 0 THEN 0 - n ELSE n

\* C14: the delta of a scroll command has its sign from the direction and
\* its magnitude from the amount: negative for down and right, positive for
\* up and left.
C14_ScrollDelta ==
    \A i \in 1..Len(helper_log) :
        (response_text \in ScrollTexts /\ helper_log[i].cmd[1] = S_scroll) =>
            LET direction == Get(action, S_direction, PyStr(S_down)).v
                amount    == Get(action, S_amount, PyInt(3)).v
            IN  helper_log[i].cmd[4] =
                    IntToStr(IF direction \in {S_down, <<"r", "i", "g", "h", "t">>}
                             THEN 0 - Abs(amount) ELSE Abs(amount))

\* C15: executing a click action issues one click command when double is
\* false and, when double is true, two click commands with the same x, y
\* and button with a pause of 100 ms between them; nothing else is issued.
C15_ClickCommands ==
    (/\ Get(action, S_action, PyNone) = PyStr(S_click)
     /\ pc \in {"helper", "sleep", "finished"}
     /\ error # "execute")
        => LET cmd  == <<S_click, PyToStr(action[S_x]), PyToStr(action[S_y]),
                         Get(action, S_button, PyStr(S_left)).v>>
               want == IF Truthy(Get(action, S_double, PyBool(FALSE)))
                       THEN <<cmd, <<S_sleep, <<"1", "0", "0">>>>, cmd>>
                       ELSE <<cmd>>
           IN  /\ Len(Issued) <= Len(want)
               /\ Issued = SubSeq(want, 1, Len(Issued))
               /\ pc = "helper" =>
                    pending = SubSeq(want, Len(Issued) + 1, Len(want))
               /\ pc = "sleep" => Issued = want
               /\ pc = "finished" => (error = "helper" /\ Len(Issued) # 2)

C15_Witness ==
    /\ response_text = R_right_double
    /\ pc = "sleep"
    /\ Len(helper_log) = 3
    /\ helper_log[1].cmd = <<S_click, <<"1", "2">>, <<"7">>, <<"r", "i", "g", "h", "t">>>>
    /\ helper_log[3] = helper_log[1]
    /\ IsSleep(helper_log[2].cmd)

\* {"action": "type", "text": text}
TypeDict(text) ==
    Put(Put(EmptyDict, S_action, PyStr(S_type)), S_text, PyStr(text))
\* {"action": "key", "key": key}
KeyDict(key) ==
    Put(Put(EmptyDict, S_action, PyStr(S_key)), S_key, PyStr(key))
\* {"action": "unknown", "raw": text}
UnknownDict(text) ==
    Put(Put(EmptyDict, S_action, PyStr(S_unknown)), S_raw, PyStr(text))

\* C16: the parsed action is that of the first step that matches, in the
\* order JSON, completion, click, type, key, unknown; a brace group with
\* "action" that does not decode leaves the choice to the later steps in
\* the same order.
\* The steps that match are collected first, each on its own; the action is
\* then that of the least of them.
C16_Precedence ==
    pc # "parse_action" =>
        LET t  == response_text
            tl == lower(t)
            matching ==
                (IF Decodes(t) THEN {1} ELSE {})
                \cup (IF completion_heuristic(tl) THEN {2} ELSE {})
                \cup (IF click_match(tl).found THEN {3} ELSE {})
                \cup (IF type_match(t).found THEN {4} ELSE {})
                \cup (IF key_match(tl).found THEN {5} ELSE {})
                \cup {6}
            first == Min(matching)
        IN  action =
              CASE first = 1 -> json_loads(json_match(t).group).val
                [] first = 2 -> DoneDict(t)
                [] first = 3 -> ClickDict(StrToInt(click_match(tl).g1),
                                          StrToInt(click_match(tl).g2))
                [] first = 4 -> TypeDict(type_match(t).g1)
                [] first = 5 -> KeyDict(key_match(tl).g1)
                [] first = 6 -> UnknownDict(t)

C16_Witness ==
    /\ response_text =
         R_undecodable \o S_click \o <<" ", "1", "2", ",", " ", "7">>
    /\ json_match(response_text).found
    /\ ~Decodes(response_text)
    /\ action = ClickDict(12, 7)
    /\ pc = "sleep"

\* the action is none of click, type, key, scroll, wait and done
IsUnknown(act) ==
    Get(act, S_action, PyStr(S_unknown)) \notin
        {PyStr(S_click), PyStr(S_type), PyStr(S_key), PyStr(S_scroll),
         PyStr(S_wait), PyStr(S_done)}

\* C19: executing a wait, done or unknown action issues no helper command:
\* wait (with ms a number that is not negative, 1000 when absent) pauses for
\* ms milliseconds and the loop goes on, done stops the loop in Done,
\* unknown lets the loop go on, and nothing else happens.
C19_NoBackend ==
    LET kind == Get(action, S_action, PyStr(S_unknown))
        ms   == Get(action, S_ms, PyInt(1000))
    IN  /\ (pc \in {"helper", "sleep", "finished"} /\ kind = PyStr(S_done)) =>
             (pc = "finished" /\ state = "Done" /\ helper_log = <<>>)
        /\ (pc \in {"helper", "sleep", "finished"} /\ IsUnknown(action)) =>
             (pc = "sleep" /\ state = "Running" /\ helper_log = <<>>)
        /\ (/\ pc \in {"helper", "sleep", "finished"}
            /\ kind = PyStr(S_wait)
            /\ ms.t = "int" /\ ms.v >= 0) =>
             /\ pc \in {"helper", "sleep"}
             /\ state = "Running"
             /\ pc = "helper" =>
                  (helper_log = <<>> /\ pending = <<<<S_sleep, IntToStr(ms.v)>>>>)
             /\ pc = "sleep" =>
                  helper_log = <<[cmd |-> <<S_sleep, IntToStr(ms.v)>>, ok |-> TRUE]>>

C19_Witness ==
    /\ response_text = Obj(ActionIs(S_wait))
    /\ pc = "sleep"
    /\ state = "Running"
    /\ helper_log = <<[cmd |-> <<S_sleep, <<"1", "0", "0", "0">>>>, ok |-> TRUE]>>

\* text holds "click" at p and, from q on behind it, an integer, commas or
\* whitespace, and another integer
ClickThenPair(tl, p, q) ==
    /\ MatchAt(tl, S_click, p)
    /\ q >= p + 5
    /\ tl[q] \in Digits
    /\ At(tl, q - 1) \notin Digits
    /\ LET e1 == RunEnd(tl, q, Digits)
           e2 == RunEnd(tl, e1 + 1, CommaOrSpace)
       IN  e2 > e1 /\ At(tl, e2 + 1) \in Digits

\* C20: a text in which no brace group with "action" decodes and on which
\* the completion heuristic does not fire, and which holds "click" followed
\* by two integers separated by commas or whitespace, is parsed as the click
\* at the first such pair, and the loop goes on after the click.
C20_ProseClick ==
    LET tl == lower(response_text)
        pairs == {pq \in (1..Len(tl)) \X (1..Len(tl)) :
                    ClickThenPair(tl, pq[1], pq[2])}
    IN  (/\ pc # "parse_action"
         /\ ~Decodes(response_text)
         /\ ~completion_heuristic(tl)
         /\ pairs # {}) =>
            LET q  == Min({pq[2] : pq \in pairs})
                e1 == RunEnd(tl, q, Digits)
                e2 == RunEnd(tl, e1 + 1, CommaOrSpace)
            IN  /\ action = ClickDict(StrToInt(SubSeq(tl, q, e1)),
                                      StrToInt(SubSeq(tl, e2 + 1,
                                                      RunEnd(tl, e2 + 1, Digits))))
                /\ (pc = "finished" => error = "helper")

====
